---- MODULE Spec2Model ----
(***************************************************************************)
(* Model of glotchimo/recast's resilient cache (the circuit breaker, the   *)
(* bounded fallback store and the Cache facade that composes them with a   *)
(* redis client) and of the Bot: its registry of guild contexts and the    *)
(* goroutines that route, dispatch and monitor the guilds' events.         *)
(*                                                                         *)
(* Time is counted in ticks of 30 seconds: cbResetTimeout (30 s) is 1      *)
(* tick and defaultExpiration (168 h) is 20160 ticks.  The clock `now` is  *)
(* the monotonic reading time.Now()/time.Since() use.                      *)
(***************************************************************************)
EXTENDS Integers, Sequences, FiniteSets, TLC

\* ---------------------------------------------------------------- bounds
MaxTime == 5
CacheMaxTime == 2
MaxSize == 1
FbMaxTime == 2
FbMaxSize == 2
NumEnsure == 3
NumWorkers == 3
FewWorkers == 2
MaxContexts == 2
MaxEvents == 2
MonMaxTime == 12

\* ------------------------------------------------------------- constants
cbThreshold == 5
cbResetTimeout == 1
halfOpenMax == 3

StateClosed == 0
StateOpen == 1
StateHalfOpen == 2

\* time.Time{}: the zero instant a fresh breaker holds in lastFailure and
\* lastStateChange.  time.Since of it saturates at the largest Duration.
ZeroTime == -1
MaxDuration == 1000000

defaultExpiration == 20160

Keys == {"", "a"}
Values == {"v1", "v2"}
NoData == "nil"
TTLs == {0, 1}
Callers == {1}

ErrNil == "nil"
RedisNil == "redis.Nil"
RemoteErr == "remote error"
ErrBreakerOpen == "circuit breaker open and key not in fallback"

VARIABLES
    now,      \* the clock
    cb,       \* the CircuitBreaker's fields
    last,     \* the latest step: the call, its result, the breaker before it
    streak,   \* RecordFailure calls since the last RecordSuccess or Reset
    failedAt, \* instant of the latest RecordFailure call
    probes,   \* RecordSuccess calls since the breaker last entered HalfOpen
    admitted, \* Allow calls that returned true while the state was HalfOpen
    fb,       \* the FallbackCache's entries: key -> [data, expiresAt]
    remote,   \* the redis server's contents: key -> value or NoData
    call,     \* per caller of the Cache: where its call stands and its locals
    maxSize,  \* the FallbackCache's maxSize
    mu,       \* the Bot's RWMutex: the tasks holding it shared, the one holding it exclusively
    contexts, \* the Bot's registry: guild ID -> GuildContext (index into heap)
    heap,     \* every GuildContext allocated so far
    task,     \* per goroutine of the Bot: where it stands and its locals
    bot,      \* the Bot's root context and ingress channel, and what it did
    mon       \* the locals of one monitor goroutine, and what its latest check did

ghostVars == <<last, streak, failedAt, probes, admitted>>
cacheVars == <<fb, remote, call>>
botVars == <<mu, contexts, heap, task, bot, mon>>
vars == <<now, cb, last, streak, failedAt, probes, admitted,
          fb, remote, call, maxSize, mu, contexts, heap, task, bot, mon>>

\* What no step of the breaker's callers, no step of the Cache's callers,
\* no step of the fallback store's callers, and no step of the Bot's
\* goroutines, touches.
breakerFrame == <<cacheVars, maxSize, botVars>>
storeFrame == <<cb, streak, failedAt, probes, admitted, remote, call,
                maxSize, botVars>>
botFrame == <<now, cb, ghostVars, cacheVars, maxSize, mon>>
cacheFrame == <<ghostVars, maxSize, botVars>>

\* --------------------------------------------------------- CircuitBreaker
NewCircuitBreaker ==
    [state |-> StateClosed, failures |-> 0, successes |-> 0,
     lastFailure |-> ZeroTime, lastStateChange |-> ZeroTime]

Since(t, clock) == IF t = ZeroTime THEN MaxDuration ELSE clock - t

\* Allow that keeps the success count of an earlier probation.
Allow_KeepSuccesses(b, clock) ==
    CASE b.state = StateClosed -> [cb |-> b, ok |-> TRUE]
      [] b.state = StateOpen ->
            IF Since(b.lastFailure, clock) > cbResetTimeout
            THEN [cb |-> [b EXCEPT !.state = StateHalfOpen,
                                   !.lastStateChange = clock],
                  ok |-> TRUE]
            ELSE [cb |-> b, ok |-> FALSE]
      [] b.state = StateHalfOpen ->
            [cb |-> b, ok |-> b.successes < halfOpenMax]
      [] OTHER -> [cb |-> b, ok |-> FALSE]

\* Allow: the breaker after the call and the value returned.
Allow(b, clock) ==
    CASE b.state = StateClosed -> [cb |-> b, ok |-> TRUE]
      [] b.state = StateOpen ->
            IF Since(b.lastFailure, clock) > cbResetTimeout
            THEN [cb |-> [b EXCEPT !.state = StateHalfOpen,
                                   !.successes = 0,
                                   !.lastStateChange = clock],
                  ok |-> TRUE]
            ELSE [cb |-> b, ok |-> FALSE]
      [] b.state = StateHalfOpen ->
            [cb |-> b, ok |-> b.successes < halfOpenMax]
      [] OTHER -> [cb |-> b, ok |-> FALSE]

\* RecordSuccess that closes one success late.
RecordSuccess_Late(b, clock) ==
    CASE b.state = StateClosed -> [b EXCEPT !.failures = 0]
      [] b.state = StateHalfOpen ->
            IF b.successes >= halfOpenMax
            THEN [b EXCEPT !.state = StateClosed,
                           !.failures = 0,
                           !.lastStateChange = clock]
            ELSE [b EXCEPT !.successes = b.successes + 1]
      [] OTHER -> b

\* RecordSuccess that closes the breaker without clearing the failures.
RecordSuccess_KeepFailures(b, clock) ==
    CASE b.state = StateClosed -> [b EXCEPT !.failures = 0]
      [] b.state = StateHalfOpen ->
            IF b.successes + 1 >= halfOpenMax
            THEN [b EXCEPT !.successes = b.successes + 1,
                           !.state = StateClosed,
                           !.lastStateChange = clock]
            ELSE [b EXCEPT !.successes = b.successes + 1]
      [] OTHER -> b

\* RecordSuccess that leaves the failure count alone while Closed.
RecordSuccess_ClosedNoClear(b, clock) ==
    CASE b.state = StateHalfOpen ->
            IF b.successes + 1 >= halfOpenMax
            THEN [b EXCEPT !.successes = b.successes + 1,
                           !.state = StateClosed,
                           !.failures = 0,
                           !.lastStateChange = clock]
            ELSE [b EXCEPT !.successes = b.successes + 1]
      [] OTHER -> b

RecordSuccess(b, clock) ==
    CASE b.state = StateClosed -> [b EXCEPT !.failures = 0]
      [] b.state = StateHalfOpen ->
            IF b.successes + 1 >= halfOpenMax
            THEN [b EXCEPT !.successes = b.successes + 1,
                           !.state = StateClosed,
                           !.failures = 0,
                           !.lastStateChange = clock]
            ELSE [b EXCEPT !.successes = b.successes + 1]
      [] OTHER -> b

\* RecordFailure that opens one failure late (> for >=).
RecordFailure_Late(b, clock) ==
    LET c == [b EXCEPT !.lastFailure = clock] IN
    CASE c.state = StateClosed ->
            IF c.failures >= cbThreshold
            THEN [c EXCEPT !.state = StateOpen, !.lastStateChange = clock]
            ELSE [c EXCEPT !.failures = c.failures + 1]
      [] c.state = StateHalfOpen ->
            [c EXCEPT !.state = StateOpen, !.lastStateChange = clock]
      [] OTHER -> c

\* RecordFailure that counts a probation failure like a Closed one.
RecordFailure_CountsInHalfOpen(b, clock) ==
    LET c == [b EXCEPT !.lastFailure = clock] IN
    CASE c.state = StateClosed ->
            IF c.failures + 1 >= cbThreshold
            THEN [c EXCEPT !.failures = c.failures + 1,
                           !.state = StateOpen,
                           !.lastStateChange = clock]
            ELSE [c EXCEPT !.failures = c.failures + 1]
      [] c.state = StateHalfOpen ->
            IF c.successes = 0
            THEN [c EXCEPT !.state = StateOpen, !.lastStateChange = clock]
            ELSE c
      [] OTHER -> c

\* RecordFailure that leaves the reset timer alone while Open.
RecordFailure_KeepTimer(b, clock) ==
    LET c == [b EXCEPT !.lastFailure = clock] IN
    CASE c.state = StateClosed ->
            IF c.failures + 1 >= cbThreshold
            THEN [c EXCEPT !.failures = c.failures + 1,
                           !.state = StateOpen,
                           !.lastStateChange = clock]
            ELSE [c EXCEPT !.failures = c.failures + 1]
      [] c.state = StateHalfOpen ->
            [c EXCEPT !.state = StateOpen, !.lastStateChange = clock]
      [] OTHER -> b

RecordFailure(b, clock) ==
    LET c == [b EXCEPT !.lastFailure = clock] IN
    CASE c.state = StateClosed ->
            IF c.failures + 1 >= cbThreshold
            THEN [c EXCEPT !.failures = c.failures + 1,
                           !.state = StateOpen,
                           !.lastStateChange = clock]
            ELSE [c EXCEPT !.failures = c.failures + 1]
      [] c.state = StateHalfOpen ->
            [c EXCEPT !.state = StateOpen, !.lastStateChange = clock]
      [] OTHER -> c

Reset(b, clock) ==
    [b EXCEPT !.state = StateClosed, !.failures = 0, !.successes = 0,
              !.lastStateChange = clock]

IsOpen(b) == b.state = StateOpen

\* ---------------------------------------------------------- FallbackCache
Entry(data, expiresAt) == [data |-> data, expiresAt |-> expiresAt]

NewFallbackCache == [k \in {} |-> Entry(NoData, ZeroTime)]

Put(entries, key, e) ==
    [k \in DOMAIN entries \cup {key} |-> IF k = key THEN e ELSE entries[k]]

Remove(entries, key) ==
    [k \in DOMAIN entries \ {key} |-> entries[k]]

\* Get that serves an entry until the sweep removes it.
FallbackGet_IgnoresExpiry(entries, key, clock) ==
    IF key \notin DOMAIN entries
    THEN [data |-> NoData, ok |-> FALSE]
    ELSE [data |-> entries[key].data, ok |-> TRUE]

\* FallbackCache.Get: the bytes and the found flag.
FallbackGet(entries, key, clock) ==
    IF key \notin DOMAIN entries
    THEN [data |-> NoData, ok |-> FALSE]
    ELSE IF clock > entries[key].expiresAt
         THEN [data |-> NoData, ok |-> FALSE]
         ELSE [data |-> entries[key].data, ok |-> TRUE]

\* The orders in which a range over a map of these keys can visit them.
Orders(S) ==
    {o \in [1..Cardinality(S) -> S] :
        \A i, j \in 1..Cardinality(S) : o[i] = o[j] => i = j}

\* The loop of evictOldest over one visiting order: the final oldestKey.
RECURSIVE Scan(_, _, _, _, _)
Scan(entries, ord, i, oldestKey, oldestTime) ==
    IF i > Len(ord)
    THEN oldestKey
    ELSE LET key == ord[i]
             entry == entries[key]
         IN  IF oldestKey = "" \/ entry.expiresAt < oldestTime
             THEN Scan(entries, ord, i + 1, key, entry.expiresAt)
             ELSE Scan(entries, ord, i + 1, oldestKey, oldestTime)

\* evictOldest: the maps it can leave, one per visiting order.
evictOldest(entries) ==
    {LET oldestKey == Scan(entries, o, 1, "", ZeroTime)
     IN  IF oldestKey # "" THEN Remove(entries, oldestKey) ELSE entries :
        o \in Orders(DOMAIN entries)}

\* FallbackCache.Set that inserts first and evicts afterwards.
FallbackSet_EvictAfterInsert(entries, key, data, ttl, clock) ==
    LET put == Put(entries, key, Entry(data, clock + ttl))
    IN  IF Cardinality(DOMAIN put) > maxSize
        THEN evictOldest(put)
        ELSE {put}

\* FallbackCache.Set, lines 48-50: the maps the capacity test can leave.
MakeRoom(entries) ==
    IF Cardinality(DOMAIN entries) >= maxSize
    THEN evictOldest(entries)
    ELSE {entries}

\* FallbackCache.Set: the maps it can leave.
FallbackSet(entries, key, data, ttl, clock) ==
    {Put(e, key, Entry(data, clock + ttl)) : e \in MakeRoom(entries)}

FallbackDelete(entries, key) == Remove(entries, key)

\* One pass of the cleanup goroutine's loop body.
cleanup(entries, clock) ==
    [k \in {x \in DOMAIN entries : ~(clock > entries[x].expiresAt)} |->
        entries[k]]

\* ------------------------------------------------------------------ Cache
NoRet == [val |-> NoData, err |-> ErrNil]
NoPrev == [op |-> "none", key |-> "", data |-> NoData]

\* A caller between calls; its fields still show the call it last made.
NoCall ==
    [pc |-> "idle", op |-> "none", key |-> "", data |-> NoData,
     allowed |-> FALSE, err |-> ErrNil, calls |-> 0, recF |-> 0, recS |-> 0,
     opened |-> FALSE, warned |-> FALSE, late |-> FALSE,
     ret |-> NoRet, prev |-> NoPrev]

\* -------------------------------------------------------------------- Bot
\* sync.RWMutex: unlocked.
NewMutex == [readers |-> {}, writer |-> 0]

\* NewBot: contexts = make(map[string]*GuildContext).
NoContexts == [g \in {} |-> 0]

\* ------------------------------------------- the breaker under its callers
\* Every method is one critical section, so concurrent callers are an
\* arbitrary sequence of calls.
Cap(n, m) == IF n > m THEN m ELSE n

CallAllow ==
    LET r == Allow(cb, now) IN
    /\ cb' = r.cb
    /\ last' = [op |-> "Allow", ok |-> r.ok, prev |-> cb]
    /\ probes' = IF cb.state = StateOpen /\ r.cb.state = StateHalfOpen
                 THEN 0 ELSE probes
    /\ admitted' = IF cb.state = StateOpen /\ r.cb.state = StateHalfOpen
                   THEN 0
                   ELSE IF cb.state = StateHalfOpen /\ r.ok
                        THEN Cap(admitted + 1, halfOpenMax + 1)
                        ELSE admitted
    /\ UNCHANGED <<now, streak, failedAt>>
    /\ UNCHANGED breakerFrame

CallRecordSuccess ==
    /\ cb' = RecordSuccess(cb, now)
    /\ last' = [op |-> "RecordSuccess", ok |-> TRUE, prev |-> cb]
    /\ streak' = 0
    /\ probes' = IF cb.state = StateHalfOpen
                 THEN Cap(probes + 1, halfOpenMax + 1) ELSE probes
    /\ UNCHANGED <<now, failedAt, admitted>>
    /\ UNCHANGED breakerFrame

CallRecordFailure ==
    /\ cb' = RecordFailure(cb, now)
    /\ last' = [op |-> "RecordFailure", ok |-> TRUE, prev |-> cb]
    /\ streak' = Cap(streak + 1, cbThreshold + 1)
    /\ failedAt' = now
    /\ UNCHANGED <<now, probes, admitted>>
    /\ UNCHANGED breakerFrame

CallReset ==
    /\ cb' = Reset(cb, now)
    /\ last' = [op |-> "Reset", ok |-> TRUE, prev |-> cb]
    /\ streak' = 0
    /\ UNCHANGED <<now, failedAt, probes, admitted>>
    /\ UNCHANGED breakerFrame

CallIsOpen ==
    /\ last' = [op |-> "IsOpen", ok |-> IsOpen(cb), prev |-> cb]
    /\ UNCHANGED <<now, cb, streak, failedAt, probes, admitted>>
    /\ UNCHANGED breakerFrame

\* The clock advances between calls.
Tick ==
    /\ now < MaxTime
    /\ now' = now + 1
    /\ last' = [op |-> "Tick", ok |-> TRUE, prev |-> cb]
    /\ UNCHANGED <<cb, streak, failedAt, probes, admitted>>
    /\ UNCHANGED breakerFrame

\* NewCircuitBreaker, lines 148-157, and the clock at that instant.
BreakerInit ==
    /\ now = 0
    /\ cb = NewCircuitBreaker
    /\ last = [op |-> "New", ok |-> TRUE, prev |-> NewCircuitBreaker]
    /\ streak = 0
    /\ failedAt = ZeroTime
    /\ probes = 0
    /\ admitted = 0

\* NewFallbackCache(size): an empty store of that capacity.
StoreInit(size) ==
    /\ fb = NewFallbackCache
    /\ maxSize = size

\* A redis without keys, and callers that have not called yet.
CallersInit(callers) ==
    /\ remote = [k \in Keys |-> NoData]
    /\ call = [c \in callers |-> NoCall]

\* What ended the process: nothing yet, or the panic or fatal error.
NoCrash == "none"
NilDereference == "nil pointer dereference"
MapRace == "concurrent map read and map write"
HandlerPanic == "panic in a command handler"

\* NewBot, lines 320-327: a live root context and an open ingress channel.
\* crashed: what ended the process.
\* sent: the events taken off a sender so far; an event is numbered by
\* its place in that order.
\* audit: the events dispatch stored and went on to handle, in order,
\* each with the context from whose queue it was received.
\* running: the events whose handler goroutine has not returned.
\* panicked: the recovered panics of handlers, each with the number of
\* events delivered when it happened.
\* pending: the events that were in the queue of a dispatch goroutine
\* when its loop body panicked, each with the context of the queue.
NewBot ==
    [cancelled |-> FALSE, closed |-> FALSE, crashed |-> NoCrash,
     sent |-> 0, audit |-> <<>>, running |-> {}, panicked |-> {},
     pending |-> {}]

\* monitor, lines 748-749: `var lastWarningTime time.Time` and
\* `var consecutiveWarnings int`.  breaches: the checks up to the latest
\* that found the fill above the threshold with no check in between that
\* did not.  alerted: the latest check logged "potential stuck handler
\* detected".
NewMonitor ==
    [lastWarningTime |-> ZeroTime, consecutiveWarnings |-> 0,
     breaches |-> 0, alerted |-> FALSE]

\* NewBot: an empty registry.
RegistryInit ==
    /\ mu = NewMutex
    /\ contexts = NoContexts
    /\ heap = <<>>
    /\ bot = NewBot
    /\ mon = NewMonitor

\* NewBot, and no goroutine of the Bot started.
BotInit ==
    /\ RegistryInit
    /\ task = <<>>

Init ==
    /\ BreakerInit
    /\ StoreInit(MaxSize)
    /\ CallersInit(Callers)
    /\ BotInit

Next ==
    \/ CallAllow
    \/ CallRecordSuccess
    \/ CallRecordFailure
    \/ CallReset
    \/ CallIsOpen
    \/ Tick

Spec == Init /\ [][Next]_vars

\* ------------------------------------------------- the Cache's callers
\* The call to RecordFailure that takes b to c is a transition into Open.
Opens(b, c) == b.state # StateOpen /\ c.state = StateOpen

\* Each caller runs Get, Set or Delete one critical section (or one redis
\* call) at a step.  A caller that has returned shows the call it made
\* until the next step of anything else; late tells that the clock
\* advanced during the call; prev is the Set the caller made immediately
\* before the current call, forgotten as soon as the clock advances, the
\* sweep runs or another caller writes the store.
Begin(c, op, key, data) ==
    [NoCall EXCEPT !.op = op, !.key = key, !.data = data,
                   !.prev = IF call[c].op = "Set" /\ ~call[c].late
                            THEN [op |-> "Set", key |-> call[c].key,
                                  data |-> call[c].data]
                            ELSE NoPrev]

Forget(r) == IF r.pc = "idle" THEN NoCall ELSE [r EXCEPT !.prev = NoPrev]

Late(r) == IF r.pc = "idle" THEN NoCall
           ELSE [r EXCEPT !.prev = NoPrev, !.late = TRUE]

\* call' when caller c moves to r and has written the fallback store.
Wrote(c, r) ==
    call' = [d \in DOMAIN call |-> IF d = c THEN r ELSE Forget(call[d])]

Moved(c, r) == call' = [call EXCEPT ![c] = r]

Return(r, val, err) ==
    [r EXCEPT !.pc = "idle", !.ret = [val |-> val, err |-> err]]

\* Cache.Get, line 53: cb.Allow().
GetAllow(c) ==
    /\ call[c].pc = "idle"
    /\ \E key \in Keys :
        LET r == Allow(cb, now)
            b == Begin(c, "Get", key, NoData)
        IN  /\ cb' = r.cb
            /\ Moved(c, [b EXCEPT !.allowed = r.ok,
                                  !.pc = IF r.ok THEN "get_remote"
                                         ELSE "get_denied"])
    /\ UNCHANGED <<now, fb, remote>>
    /\ UNCHANGED cacheFrame

\* Get that reports a miss of the fallback store as an empty success.
GetDenied_EmptyOnMiss(c) ==
    /\ call[c].pc = "get_denied"
    /\ LET h == FallbackGet(fb, call[c].key, now)
       IN  Moved(c, Return(call[c], h.data, ErrNil))
    /\ UNCHANGED <<now, cb, fb, remote>>
    /\ UNCHANGED cacheFrame

\* Cache.Get, lines 54-57: the breaker disallowed the call.
GetDenied(c) ==
    /\ call[c].pc = "get_denied"
    /\ LET h == FallbackGet(fb, call[c].key, now)
       IN  Moved(c, IF h.ok
                    THEN Return(call[c], h.data, ErrNil)
                    ELSE Return(call[c], NoData, ErrBreakerOpen))
    /\ UNCHANGED <<now, cb, fb, remote>>
    /\ UNCHANGED cacheFrame

\* Get that takes redis.Nil for a failure of the redis call.
GetRemote_NilIsFailure(c) ==
    /\ call[c].pc = "get_remote"
    /\ \/ Moved(c, [call[c] EXCEPT !.calls = @ + 1, !.err = RemoteErr,
                                    !.pc = "get_fail"])
       \/ /\ remote[call[c].key] = NoData
          /\ Moved(c, [call[c] EXCEPT !.calls = @ + 1, !.err = RedisNil,
                                      !.pc = "get_fail"])
       \/ /\ remote[call[c].key] # NoData
          /\ Moved(c, [call[c] EXCEPT !.calls = @ + 1,
                                      !.data = remote[call[c].key],
                                      !.pc = "get_succ"])
    /\ UNCHANGED <<now, cb, fb, remote>>
    /\ UNCHANGED cacheFrame

\* Cache.Get, line 60: the redis GET fails, finds no key, or yields bytes.
GetRemote(c) ==
    /\ call[c].pc = "get_remote"
    /\ \/ /\ Moved(c, [call[c] EXCEPT !.calls = @ + 1, !.err = RemoteErr,
                                      !.pc = "get_fail"])
       \/ /\ remote[call[c].key] = NoData
          /\ Moved(c, [call[c] EXCEPT !.calls = @ + 1, !.err = RedisNil,
                                      !.pc = "get_fb"])
       \/ /\ remote[call[c].key] # NoData
          /\ Moved(c, [call[c] EXCEPT !.calls = @ + 1,
                                      !.data = remote[call[c].key],
                                      !.pc = "get_succ"])
    /\ UNCHANGED <<now, cb, fb, remote>>
    /\ UNCHANGED cacheFrame

\* Cache.Get, line 63: cb.RecordFailure().
GetRecordFailure(c) ==
    /\ call[c].pc = "get_fail"
    /\ cb' = RecordFailure(cb, now)
    /\ Moved(c, [call[c] EXCEPT !.recF = @ + 1, !.opened = Opens(cb, cb'),
                                !.pc = "get_isopen"])
    /\ UNCHANGED <<now, fb, remote>>
    /\ UNCHANGED cacheFrame

\* Cache.Get, lines 64-66: cb.IsOpen() and the warning.
GetIsOpen(c) ==
    /\ call[c].pc = "get_isopen"
    /\ Moved(c, [call[c] EXCEPT !.warned = IsOpen(cb), !.pc = "get_fb"])
    /\ UNCHANGED <<now, cb, fb, remote>>
    /\ UNCHANGED cacheFrame

\* Get that reports a miss after a redis error as key-absent.
GetFallback_NotFoundOnMiss(c) ==
    /\ call[c].pc = "get_fb"
    /\ LET h == FallbackGet(fb, call[c].key, now)
       IN  Moved(c, IF h.ok
                    THEN Return(call[c], h.data, ErrNil)
                    ELSE Return(call[c], NoData, RedisNil))
    /\ UNCHANGED <<now, cb, fb, remote>>
    /\ UNCHANGED cacheFrame

\* Get that returns the redis error next to the fallback store's bytes.
GetFallback_ErrorDespiteHit(c) ==
    /\ call[c].pc = "get_fb"
    /\ LET h == FallbackGet(fb, call[c].key, now)
       IN  Moved(c, Return(call[c], h.data, call[c].err))
    /\ UNCHANGED <<now, cb, fb, remote>>
    /\ UNCHANGED cacheFrame

\* Cache.Get, lines 68-71: the fallback lookup after a redis error.
GetFallback(c) ==
    /\ call[c].pc = "get_fb"
    /\ LET h == FallbackGet(fb, call[c].key, now)
       IN  Moved(c, IF h.ok
                    THEN Return(call[c], h.data, ErrNil)
                    ELSE Return(call[c], NoData, call[c].err))
    /\ UNCHANGED <<now, cb, fb, remote>>
    /\ UNCHANGED cacheFrame

\* Cache.Get, line 74: cb.RecordSuccess().
GetRecordSuccess(c) ==
    /\ call[c].pc = "get_succ"
    /\ cb' = RecordSuccess(cb, now)
    /\ Moved(c, [call[c] EXCEPT !.recS = @ + 1, !.pc = "get_mirror"])
    /\ UNCHANGED <<now, fb, remote>>
    /\ UNCHANGED cacheFrame

\* Cache.Get, lines 75-76: mirror the bytes into the fallback store.
GetMirror(c) ==
    /\ call[c].pc = "get_mirror"
    /\ fb' \in FallbackSet(fb, call[c].key, call[c].data, defaultExpiration, now)
    /\ Wrote(c, Return(call[c], call[c].data, ErrNil))
    /\ UNCHANGED <<now, cb, remote>>
    /\ UNCHANGED cacheFrame

\* Cache.Set, lines 80-84: default the expiration, write the fallback store.
SetFallback(c) ==
    /\ call[c].pc = "idle"
    /\ \E key \in Keys, data \in Values, expiration \in TTLs :
        /\ fb' \in FallbackSet(fb, key, data,
                               IF expiration = 0 THEN defaultExpiration
                               ELSE expiration, now)
        /\ Wrote(c, [Begin(c, "Set", key, data) EXCEPT !.pc = "set_allow"])
    /\ UNCHANGED <<now, cb, remote>>
    /\ UNCHANGED cacheFrame

\* Set that goes on to redis although the breaker disallowed the call.
SetAllow_IgnoresBreaker(c) ==
    /\ call[c].pc = "set_allow"
    /\ LET r == Allow(cb, now)
       IN  /\ cb' = r.cb
           /\ Moved(c, [call[c] EXCEPT !.allowed = r.ok, !.pc = "set_remote"])
    /\ UNCHANGED <<now, fb, remote>>
    /\ UNCHANGED cacheFrame

\* Cache.Set, lines 86-88: cb.Allow().
SetAllow(c) ==
    /\ call[c].pc = "set_allow"
    /\ LET r == Allow(cb, now)
       IN  /\ cb' = r.cb
           /\ Moved(c, IF r.ok
                       THEN [call[c] EXCEPT !.allowed = TRUE,
                                            !.pc = "set_remote"]
                       ELSE Return(call[c], NoData, ErrNil))
    /\ UNCHANGED <<now, fb, remote>>
    /\ UNCHANGED cacheFrame

\* Cache.Set, line 90: the redis SET fails or stores the bytes.
SetRemote(c) ==
    /\ call[c].pc = "set_remote"
    /\ \/ /\ Moved(c, [call[c] EXCEPT !.calls = @ + 1, !.err = RemoteErr,
                                      !.pc = "set_fail"])
          /\ UNCHANGED remote
       \/ /\ remote' = [remote EXCEPT ![call[c].key] = call[c].data]
          /\ Moved(c, [call[c] EXCEPT !.calls = @ + 1, !.pc = "set_succ"])
    /\ UNCHANGED <<now, cb, fb>>
    /\ UNCHANGED cacheFrame

\* Set that takes its fallback write back when the redis write failed.
SetRecordFailure_RollsBack(c) ==
    /\ call[c].pc = "set_fail"
    /\ cb' = RecordFailure(cb, now)
    /\ fb' = FallbackDelete(fb, call[c].key)
    /\ Wrote(c, [call[c] EXCEPT !.recF = @ + 1, !.opened = Opens(cb, cb'),
                                !.pc = "set_isopen"])
    /\ UNCHANGED <<now, remote>>
    /\ UNCHANGED cacheFrame

\* Cache.Set, line 91: cb.RecordFailure().
SetRecordFailure(c) ==
    /\ call[c].pc = "set_fail"
    /\ cb' = RecordFailure(cb, now)
    /\ Moved(c, [call[c] EXCEPT !.recF = @ + 1, !.opened = Opens(cb, cb'),
                                !.pc = "set_isopen"])
    /\ UNCHANGED <<now, fb, remote>>
    /\ UNCHANGED cacheFrame

\* Cache.Set, lines 92-95: cb.IsOpen(), the warning, the error returned.
SetIsOpen(c) ==
    /\ call[c].pc = "set_isopen"
    /\ Moved(c, Return([call[c] EXCEPT !.warned = IsOpen(cb)],
                       NoData, call[c].err))
    /\ UNCHANGED <<now, cb, fb, remote>>
    /\ UNCHANGED cacheFrame

\* Cache.Set, lines 98-99: cb.RecordSuccess().
SetRecordSuccess(c) ==
    /\ call[c].pc = "set_succ"
    /\ cb' = RecordSuccess(cb, now)
    /\ Moved(c, Return([call[c] EXCEPT !.recS = @ + 1], NoData, ErrNil))
    /\ UNCHANGED <<now, fb, remote>>
    /\ UNCHANGED cacheFrame

\* Cache.Delete, line 103: remove the key from the fallback store.
DeleteFallback(c) ==
    /\ call[c].pc = "idle"
    /\ \E key \in Keys :
        /\ fb' = FallbackDelete(fb, key)
        /\ Wrote(c, [Begin(c, "Delete", key, NoData) EXCEPT !.pc = "del_allow"])
    /\ UNCHANGED <<now, cb, remote>>
    /\ UNCHANGED cacheFrame

\* Delete that goes on to redis although the breaker disallowed the call.
DeleteAllow_IgnoresBreaker(c) ==
    /\ call[c].pc = "del_allow"
    /\ LET r == Allow(cb, now)
       IN  /\ cb' = r.cb
           /\ Moved(c, [call[c] EXCEPT !.allowed = r.ok, !.pc = "del_remote"])
    /\ UNCHANGED <<now, fb, remote>>
    /\ UNCHANGED cacheFrame

\* Cache.Delete, lines 105-107: cb.Allow().
DeleteAllow(c) ==
    /\ call[c].pc = "del_allow"
    /\ LET r == Allow(cb, now)
       IN  /\ cb' = r.cb
           /\ Moved(c, IF r.ok
                       THEN [call[c] EXCEPT !.allowed = TRUE,
                                            !.pc = "del_remote"]
                       ELSE Return(call[c], NoData, ErrNil))
    /\ UNCHANGED <<now, fb, remote>>
    /\ UNCHANGED cacheFrame

\* Cache.Delete, line 109: the redis DEL fails or removes the key.
DeleteRemote(c) ==
    /\ call[c].pc = "del_remote"
    /\ \/ /\ Moved(c, [call[c] EXCEPT !.calls = @ + 1, !.err = RemoteErr,
                                      !.pc = "del_fail"])
          /\ UNCHANGED remote
       \/ /\ remote' = [remote EXCEPT ![call[c].key] = NoData]
          /\ Moved(c, [call[c] EXCEPT !.calls = @ + 1, !.pc = "del_succ"])
    /\ UNCHANGED <<now, cb, fb>>
    /\ UNCHANGED cacheFrame

\* Cache.Delete, lines 110-111: cb.RecordFailure() and the error returned.
DeleteRecordFailure(c) ==
    /\ call[c].pc = "del_fail"
    /\ cb' = RecordFailure(cb, now)
    /\ Moved(c, Return([call[c] EXCEPT !.recF = @ + 1,
                                       !.opened = Opens(cb, cb')],
                       NoData, call[c].err))
    /\ UNCHANGED <<now, fb, remote>>
    /\ UNCHANGED cacheFrame

\* Cache.Delete, lines 114-115: cb.RecordSuccess().
DeleteRecordSuccess(c) ==
    /\ call[c].pc = "del_succ"
    /\ cb' = RecordSuccess(cb, now)
    /\ Moved(c, Return([call[c] EXCEPT !.recS = @ + 1], NoData, ErrNil))
    /\ UNCHANGED <<now, fb, remote>>
    /\ UNCHANGED cacheFrame

\* The cleanup goroutine's ticker fires.
Sweep ==
    /\ fb' = cleanup(fb, now)
    /\ call' = [c \in DOMAIN call |-> Forget(call[c])]
    /\ UNCHANGED <<now, cb, remote>>
    /\ UNCHANGED cacheFrame

\* The clock advances.
CacheTick ==
    /\ now < CacheMaxTime
    /\ now' = now + 1
    /\ call' = [c \in DOMAIN call |-> Late(call[c])]
    /\ UNCHANGED <<cb, fb, remote>>
    /\ UNCHANGED cacheFrame

CacheInit == Init

CacheNext ==
    \/ \E c \in DOMAIN call : GetAllow(c)
    \/ \E c \in DOMAIN call : GetDenied(c)
    \/ \E c \in DOMAIN call : GetRemote(c)
    \/ \E c \in DOMAIN call : GetRecordFailure(c)
    \/ \E c \in DOMAIN call : GetIsOpen(c)
    \/ \E c \in DOMAIN call : GetFallback(c)
    \/ \E c \in DOMAIN call : GetRecordSuccess(c)
    \/ \E c \in DOMAIN call : GetMirror(c)
    \/ \E c \in DOMAIN call : SetFallback(c)
    \/ \E c \in DOMAIN call : SetAllow(c)
    \/ \E c \in DOMAIN call : SetRemote(c)
    \/ \E c \in DOMAIN call : SetRecordFailure(c)
    \/ \E c \in DOMAIN call : SetIsOpen(c)
    \/ \E c \in DOMAIN call : SetRecordSuccess(c)
    \/ \E c \in DOMAIN call : DeleteFallback(c)
    \/ \E c \in DOMAIN call : DeleteAllow(c)
    \/ \E c \in DOMAIN call : DeleteRemote(c)
    \/ \E c \in DOMAIN call : DeleteRecordFailure(c)
    \/ \E c \in DOMAIN call : DeleteRecordSuccess(c)
    \/ Sweep
    \/ CacheTick

CacheSpec == CacheInit /\ [][CacheNext]_vars

\* ------------------------------------------------------- CircuitBreaker claims
Elapsed == Since(failedAt, now)

\* C1: from Closed with no failures counted, the breaker opens on the
\* threshold-th RecordFailure of a run without RecordSuccess and on no
\* earlier one, a RecordFailure while Open is no second transition, and
\* while Open every Allow made no more than resetTimeout after the latest
\* recorded failure returns false.
C1_OpensOnceAtThreshold ==
    /\ (last.op = "RecordFailure" /\ last.prev.state = StateClosed)
          => (cb.state = StateOpen <=> streak = cbThreshold)
    /\ (last.op = "RecordFailure" /\ last.prev.state = StateOpen)
          => /\ cb.state = StateOpen
             /\ cb.lastStateChange = last.prev.lastStateChange
    /\ (last.op = "Allow" /\ last.prev.state = StateOpen
           /\ Elapsed <= cbResetTimeout)
          => (~last.ok /\ cb.state = StateOpen)

C1_Witness ==
    /\ last.op = "Allow"
    /\ last.prev.state = StateOpen
    /\ ~last.ok
    /\ streak = cbThreshold
    /\ Elapsed = cbResetTimeout

\* C2: an Allow on an Open breaker made more than resetTimeout after the
\* latest failure returns true, makes the state HalfOpen and the success
\* count 0; one made before the timeout has elapsed returns false and
\* leaves the state Open.
C2_OpenAllow ==
    (last.op = "Allow" /\ last.prev.state = StateOpen)
      => /\ Elapsed > cbResetTimeout
              => (last.ok /\ cb.state = StateHalfOpen /\ cb.successes = 0)
         /\ Elapsed < cbResetTimeout
              => (~last.ok /\ cb.state = StateOpen /\ cb = last.prev)

C2_Witness ==
    /\ last.op = "Allow"
    /\ last.prev.state = StateOpen
    /\ last.prev.successes > 0
    /\ last.ok
    /\ cb.state = StateHalfOpen

\* C3: a RecordSuccess in HalfOpen closes the breaker exactly when it is
\* the halfOpenMax-th since HalfOpen was entered; an earlier one leaves
\* it HalfOpen.
C3_ClosesAtHalfOpenMax ==
    (last.op = "RecordSuccess" /\ last.prev.state = StateHalfOpen)
      => /\ probes = halfOpenMax => cb.state = StateClosed
         /\ probes < halfOpenMax => cb.state = StateHalfOpen
         /\ probes <= halfOpenMax

C3_Witness ==
    /\ last.op = "RecordSuccess"
    /\ last.prev.state = StateHalfOpen
    /\ probes = halfOpenMax
    /\ cb.state = StateClosed
    /\ streak = 0

\* C4: a RecordFailure in HalfOpen makes the state Open, whatever the
\* number of successes recorded in that probation.
C4_HalfOpenFailureOpens ==
    (last.op = "RecordFailure" /\ last.prev.state = StateHalfOpen)
      => cb.state = StateOpen

C4_Witness ==
    /\ last.op = "RecordFailure"
    /\ last.prev.state = StateHalfOpen
    /\ last.prev.successes = halfOpenMax - 1
    /\ probes = halfOpenMax - 1
    /\ cb.state = StateOpen

\* C5: between entering HalfOpen and leaving it, at most halfOpenMax Allow
\* calls return true.
C5_ProbesLimited ==
    cb.state = StateHalfOpen => admitted <= halfOpenMax

\* C6: a step that makes the state Closed leaves the failure count 0, a
\* step that makes the state HalfOpen leaves the success count 0, and
\* Reset from any state yields Closed with no failures.
C6_CountersClearedOnEntry ==
    /\ (cb.state = StateClosed /\ last.prev.state # StateClosed)
          => cb.failures = 0
    /\ (cb.state = StateHalfOpen /\ last.prev.state # StateHalfOpen)
          => cb.successes = 0
    /\ last.op = "Reset" => (cb.state = StateClosed /\ cb.failures = 0)

C6_Witness ==
    /\ last.op = "RecordSuccess"
    /\ last.prev.state = StateHalfOpen
    /\ last.prev.failures = cbThreshold
    /\ cb.state = StateClosed
    /\ cb.failures = 0

\* C7: while Closed, Allow returns true and RecordSuccess makes the failure
\* count 0, and the breaker leaves Closed only by a RecordFailure that is
\* the threshold-th of a run with no RecordSuccess in between.
C7_ClosedNeedsFullRun ==
    /\ (last.op = "Allow" /\ last.prev.state = StateClosed)
          => (last.ok /\ cb.state = StateClosed)
    /\ (last.op = "RecordSuccess" /\ last.prev.state = StateClosed)
          => (cb.failures = 0 /\ cb.state = StateClosed)
    /\ (last.prev.state = StateClosed /\ cb.state # StateClosed)
          => (last.op = "RecordFailure" /\ streak >= cbThreshold)

C7_Witness ==
    /\ last.op = "RecordSuccess"
    /\ last.prev.state = StateClosed
    /\ last.prev.failures = cbThreshold - 1
    /\ cb.state = StateClosed
    /\ cb.failures = 0

\* ---------------------------------------------------------- Cache claims
\* The caller has just returned from a Get.
ReturnedGet(c) == call[c].pc = "idle" /\ call[c].op = "Get"

\* The fallback store holds an unexpired entry for the key.
Live(key) == key \in DOMAIN fb /\ ~(now > fb[key].expiresAt)

\* C8: a Get made immediately after a Set of the same key, whose redis
\* call (if any) yielded no bytes, returns the bytes of the Set without
\* error, whatever the breaker's state and however full the store was.
C8_SetThenGet ==
    \A c \in Callers :
        (/\ ReturnedGet(c)
         /\ call[c].prev.op = "Set"
         /\ call[c].prev.key = call[c].key
         /\ call[c].recS = 0)
          => call[c].ret = [val |-> call[c].prev.data, err |-> ErrNil]

C8_Witness ==
    \E c \in Callers :
        /\ ReturnedGet(c)
        /\ call[c].prev.op = "Set"
        /\ call[c].prev.key = call[c].key
        /\ call[c].allowed
        /\ call[c].err = RemoteErr
        /\ cb.state = StateOpen
        /\ Cardinality(DOMAIN fb) > MaxSize
        /\ call[c].ret = [val |-> call[c].prev.data, err |-> ErrNil]

\* C9: a Get the breaker did not allow makes no redis call; it returns the
\* fallback store's bytes when the key is there and unexpired, and the
\* breaker-open error otherwise.
C9_DeniedGet ==
    \A c \in Callers :
        (ReturnedGet(c) /\ ~call[c].allowed)
          => /\ call[c].calls = 0
             /\ IF Live(call[c].key)
                THEN call[c].ret = [val |-> fb[call[c].key].data,
                                    err |-> ErrNil]
                ELSE call[c].ret = [val |-> NoData, err |-> ErrBreakerOpen]

C9_Witness ==
    \E c \in Callers :
        /\ ReturnedGet(c)
        /\ ~call[c].allowed
        /\ call[c].key \in DOMAIN fb
        /\ ~Live(call[c].key)
        /\ call[c].ret.err = ErrBreakerOpen

\* C10: an allowed Get whose redis call fails with an error other than
\* redis.Nil records one failure and no success on the breaker, and
\* returns the fallback store's bytes without error when the key is there
\* and unexpired, and the redis error otherwise.
C10_FailedGet ==
    \A c \in Callers :
        (ReturnedGet(c) /\ call[c].allowed /\ call[c].err = RemoteErr)
          => /\ call[c].recF = 1
             /\ call[c].recS = 0
             /\ IF Live(call[c].key)
                THEN call[c].ret = [val |-> fb[call[c].key].data,
                                    err |-> ErrNil]
                ELSE call[c].ret = [val |-> NoData, err |-> RemoteErr]

C10_Witness ==
    \E c \in Callers :
        /\ ReturnedGet(c)
        /\ call[c].allowed
        /\ call[c].err = RemoteErr
        /\ call[c].recF = 1
        /\ ~Live(call[c].key)
        /\ call[c].ret = [val |-> NoData, err |-> RemoteErr]

\* The caller has just returned from a call of the kind op.
Returned(c, op) == call[c].pc = "idle" /\ call[c].op = op

\* The fallback store holds the caller's bytes under the caller's key.
Holds(c) == call[c].key \in DOMAIN fb /\ fb[call[c].key].data = call[c].data

\* C11: a Get whose redis call answers redis.Nil calls neither
\* RecordFailure nor RecordSuccess, and returns the fallback store's bytes
\* when the key is there and unexpired, and redis.Nil (not found) otherwise.
C11_AbsentKeyGet ==
    \A c \in Callers :
        (ReturnedGet(c) /\ call[c].err = RedisNil)
          => /\ call[c].recF = 0
             /\ call[c].recS = 0
             /\ ~call[c].opened
             /\ IF Live(call[c].key)
                THEN call[c].ret = [val |-> fb[call[c].key].data,
                                    err |-> ErrNil]
                ELSE call[c].ret = [val |-> NoData, err |-> RedisNil]

C11_Witness ==
    \E c \in Callers :
        /\ ReturnedGet(c)
        /\ call[c].err = RedisNil
        /\ cb.state = StateHalfOpen
        /\ cb.failures = cbThreshold
        /\ call[c].ret = [val |-> NoData, err |-> RedisNil]

\* C12: Set has written its bytes into the fallback store when it comes to
\* consult the breaker, in every breaker state, and a Set the breaker
\* disallows makes no redis call and returns no error.
C12_SetWritesFallbackFirst ==
    \A c \in Callers :
        /\ (call[c].pc = "set_allow" /\ ~call[c].late)
             => (Holds(c) /\ ~call[c].allowed /\ call[c].calls = 0)
        /\ (Returned(c, "Set") /\ ~call[c].allowed)
             => /\ call[c].calls = 0
                /\ call[c].ret = [val |-> NoData, err |-> ErrNil]
                /\ ~call[c].late => Holds(c)

C12_Witness ==
    \E c \in Callers :
        /\ Returned(c, "Set")
        /\ ~call[c].allowed
        /\ cb.state = StateOpen
        /\ call[c].calls = 0
        /\ call[c].ret.err = ErrNil
        /\ Holds(c)
        /\ remote[call[c].key] # call[c].data

\* C13: an allowed Set whose redis write fails returns the error, calls
\* RecordFailure once, and leaves its bytes in the fallback store.
C13_FailedSet ==
    \A c \in Callers :
        (Returned(c, "Set") /\ call[c].allowed /\ call[c].err = RemoteErr)
          => /\ call[c].ret = [val |-> NoData, err |-> RemoteErr]
             /\ call[c].recF = 1
             /\ call[c].recS = 0
             /\ ~call[c].late => Holds(c)
             /\ call[c].key \in DOMAIN fb => Holds(c)

C13_Witness ==
    \E c \in Callers :
        /\ Returned(c, "Set")
        /\ call[c].allowed
        /\ call[c].err = RemoteErr
        /\ call[c].ret.err = RemoteErr
        /\ call[c].recF = 1
        /\ Holds(c)
        /\ Live(call[c].key)

\* C14: Delete leaves the key out of the fallback store in every breaker
\* state and whatever redis answers; disallowed, it makes no redis call,
\* records nothing and returns no error; allowed, it makes the redis call
\* and calls exactly one of RecordSuccess and RecordFailure.
C14_Delete ==
    \A c \in Callers :
        /\ call[c].op = "Delete" => call[c].key \notin DOMAIN fb
        /\ (Returned(c, "Delete") /\ ~call[c].allowed)
             => /\ call[c].calls = 0
                /\ call[c].recF + call[c].recS = 0
                /\ call[c].ret.err = ErrNil
        /\ (Returned(c, "Delete") /\ call[c].allowed)
             => /\ call[c].calls = 1
                /\ call[c].recF + call[c].recS = 1
                /\ call[c].recF = 1 <=> call[c].err = RemoteErr
                /\ call[c].ret.err = call[c].err

C14_Witness ==
    \E c \in Callers :
        /\ Returned(c, "Delete")
        /\ ~call[c].allowed
        /\ cb.state = StateOpen
        /\ call[c].key \notin DOMAIN fb
        /\ DOMAIN fb # {}
        /\ call[c].ret.err = ErrNil

\* C15 as claimed: a call of Get, Set or Delete whose fallback operation
\* succeeded returns no error.
C15_NoErrorWhenFallbackOk ==
    \A c \in Callers :
        (/\ call[c].pc = "idle"
         /\ call[c].op \in {"Get", "Set", "Delete"}
         /\ call[c].op = "Get" => Live(call[c].key))
          => call[c].ret.err = ErrNil

\* C15 as amended: a Get whose fallback lookup succeeded returns no error;
\* a Set or a Delete whose redis call failed returns that error although
\* its fallback operation succeeded.
C15_OnlyGetAbsorbsFailure ==
    \A c \in Callers :
        /\ (ReturnedGet(c) /\ Live(call[c].key)) => call[c].ret.err = ErrNil
        /\ (/\ call[c].pc = "idle"
            /\ call[c].op \in {"Set", "Delete"}
            /\ call[c].err = RemoteErr)
             => call[c].ret.err = RemoteErr

C15_Witness ==
    \E c \in Callers :
        /\ ReturnedGet(c)
        /\ call[c].err = RemoteErr
        /\ call[c].recF = 1
        /\ Live(call[c].key)
        /\ call[c].ret.err = ErrNil

\* ------------------------------------------- two callers of one Cache
\* Two goroutines call Get and Set on one Cache at once, each with the one
\* key and the one value of RaceInput; every step is one critical section
\* of the breaker or of the fallback store, or one redis call.
RaceCallers == {1, 2}

RaceInit ==
    /\ BreakerInit
    /\ StoreInit(MaxSize)
    /\ CallersInit(RaceCallers)
    /\ BotInit

RaceInput ==
    /\ \A c \in DOMAIN call :
        /\ call[c].op # "none" => call[c].key = "a"
        /\ call[c].data \in {NoData, "v1"}
    /\ \A k \in DOMAIN fb : fb[k].expiresAt >= defaultExpiration

RaceNext ==
    \/ \E c \in DOMAIN call : GetAllow(c) /\ RaceInput'
    \/ \E c \in DOMAIN call : GetDenied(c)
    \/ \E c \in DOMAIN call : GetRemote(c)
    \/ \E c \in DOMAIN call : GetRecordFailure(c)
    \/ \E c \in DOMAIN call : GetIsOpen(c)
    \/ \E c \in DOMAIN call : GetFallback(c)
    \/ \E c \in DOMAIN call : GetRecordSuccess(c)
    \/ \E c \in DOMAIN call : GetMirror(c)
    \/ \E c \in DOMAIN call : SetFallback(c) /\ RaceInput'
    \/ \E c \in DOMAIN call : SetAllow(c)
    \/ \E c \in DOMAIN call : SetRemote(c)
    \/ \E c \in DOMAIN call : SetRecordFailure(c)
    \/ \E c \in DOMAIN call : SetIsOpen(c)
    \/ \E c \in DOMAIN call : SetRecordSuccess(c)
    \/ CacheTick

RaceSpec == RaceInit /\ [][RaceNext]_vars

\* C16: a caller of Get or Set that logs the breaker-open warning is one
\* whose own RecordFailure made the transition into Open, so that no
\* transition is warned of twice.
C16_WarningOnlyAtTransition ==
    \A c \in DOMAIN call : call[c].warned => call[c].opened

\* ------------------------------------------- the FallbackCache's callers
\* A FallbackCache of capacity FbMaxSize, called directly.  `last` is the
\* latest call: its arguments, what it returned, whether it found the
\* store full, and the keys it evicted before inserting.
FbKeys == {"", "a", "b"}
FbTTLs == {1, 3}

FbCall(op, key, data, ok, full, evicted) ==
    [op |-> op, key |-> key, data |-> data, ok |-> ok, full |-> full,
     evicted |-> evicted]

FbInit ==
    /\ now = 0
    /\ cb = NewCircuitBreaker
    /\ last = FbCall("New", "", NoData, TRUE, FALSE, {})
    /\ streak = 0
    /\ failedAt = ZeroTime
    /\ probes = 0
    /\ admitted = 0
    /\ StoreInit(FbMaxSize)
    /\ CallersInit(Callers)
    /\ BotInit

\* FallbackCache.Set(key, data, ttl).
FbSet ==
    /\ \E key \in FbKeys, data \in Values, ttl \in FbTTLs :
        \E e \in MakeRoom(fb) :
            /\ fb' = Put(e, key, Entry(data, now + ttl))
            /\ fb' \in FallbackSet(fb, key, data, ttl, now)
            /\ last' = FbCall("Set", key, data, TRUE,
                              Cardinality(DOMAIN fb) >= maxSize,
                              DOMAIN fb \ DOMAIN e)
    /\ UNCHANGED now
    /\ UNCHANGED storeFrame

\* FallbackCache.Get(key).
FbGet ==
    /\ \E key \in FbKeys :
        LET r == FallbackGet(fb, key, now)
        IN  last' = FbCall("Get", key, r.data, r.ok, FALSE, {})
    /\ UNCHANGED <<now, fb>>
    /\ UNCHANGED storeFrame

\* FallbackCache.Delete(key).
FbDelete ==
    /\ \E key \in FbKeys :
        /\ fb' = FallbackDelete(fb, key)
        /\ last' = FbCall("Delete", key, NoData, TRUE, FALSE, {})
    /\ UNCHANGED now
    /\ UNCHANGED storeFrame

\* The cleanup goroutine's ticker fires.
FbSweep ==
    /\ fb' = cleanup(fb, now)
    /\ last' = FbCall("Sweep", "", NoData, TRUE, FALSE, {})
    /\ UNCHANGED now
    /\ UNCHANGED storeFrame

\* The clock advances.
FbTick ==
    /\ now < FbMaxTime
    /\ now' = now + 1
    /\ last' = FbCall("Tick", "", NoData, TRUE, FALSE, {})
    /\ UNCHANGED fb
    /\ UNCHANGED storeFrame

FbNext ==
    \/ FbSet
    \/ FbGet
    \/ FbDelete
    \/ FbSweep
    \/ FbTick

FbSpec == FbInit /\ [][FbNext]_vars

\* C17: whatever Set, Delete, Get and sweep calls were made, with the
\* empty key and re-inserted keys among them, the store holds no more
\* entries than its capacity, and a Set into a full store evicts exactly
\* one entry before it inserts.
C17_NeverOverCapacity ==
    /\ Cardinality(DOMAIN fb) <= maxSize
    /\ (last.op = "Set" /\ last.full) => Cardinality(last.evicted) = 1

\* C18: a Set into a full store evicts an entry whose expiry instant is
\* the least of all the entries the store held, whatever the keys and the
\* order the map is visited in.
C18_EvictsNearestExpiry ==
    [][(last'.op = "Set" /\ last'.full)
         => /\ last'.evicted # {}
            /\ \A k \in last'.evicted : \A j \in DOMAIN fb :
                   fb[k].expiresAt <= fb[j].expiresAt]_vars

\* C19: Get returns not found for an entry whose expiry instant has
\* passed, swept or not, and for a key the store does not hold, and
\* returns the stored bytes of an entry whose expiry has not passed.
C19_GetHonoursExpiry ==
    last.op = "Get"
      => IF last.key \in DOMAIN fb /\ now <= fb[last.key].expiresAt
         THEN last.ok /\ last.data = fb[last.key].data
         ELSE ~last.ok /\ last.data = NoData

C19_Witness ==
    /\ last.op = "Get"
    /\ last.key \in DOMAIN fb
    /\ now > fb[last.key].expiresAt
    /\ ~last.ok
    /\ last.data = NoData

\* ------------------------------------------------------------ Bot.ensure
\* NumEnsure goroutines each call b.ensure(guildID) once.  A step is one
\* operation on b.mu or one access to b.contexts made while holding it.
Guilds == {"g1", "g2"}
Tasks == 1..NumEnsure

\* kind: the function the goroutine runs; ctx: the *GuildContext it holds;
\* event: the event it holds; found, ret: the locals of its call of ensure.
\* orphan: remove has run for its guild since the goroutine was started.
NoTask ==
    [kind |-> "ensure", pc |-> "idle", guild |-> "", found |-> FALSE,
     ret |-> 0, ctx |-> 0, event |-> 0, orphan |-> FALSE]

\* &GuildContext{...}, lines 494-500: a live context and two empty
\* buffered channels.  guild is the ID the context was made for, and
\* monitors the number of monitor goroutines started on the context that
\* have not returned.
NewGuildContext(guildID) ==
    [guild |-> guildID, cancelled |-> FALSE,
     events |-> <<>>, eventsCap |-> 1000,
     relay |-> <<>>, relayCap |-> 500, monitors |-> 0]

\* b.contexts[guildID] = guildCtx
Store(m, guildID, ref) ==
    [g \in DOMAIN m \cup {guildID} |-> IF g = guildID THEN ref ELSE m[g]]

EnsureInit ==
    /\ BreakerInit
    /\ StoreInit(MaxSize)
    /\ CallersInit(Callers)
    /\ RegistryInit
    /\ task = [t \in Tasks |-> NoTask]

\* ensure, line 480: b.mu.RLock().
EnsureRLock(t) ==
    /\ task[t].pc = "idle"
    /\ mu.writer = 0
    /\ \E guildID \in IF task[t].guild = "" THEN Guilds
                       ELSE {task[t].guild} :
        task' = [task EXCEPT ![t] = [@ EXCEPT !.pc = "check",
                                              !.guild = guildID]]
    /\ mu' = [mu EXCEPT !.readers = @ \cup {t}]
    /\ UNCHANGED <<contexts, heap>>
    /\ UNCHANGED <<bot, botFrame>>

\* ensure, line 481: the lookup made under the shared lock.
EnsureCheck(t) ==
    /\ task[t].pc = "check"
    /\ task' = [task EXCEPT ![t] =
                   IF task[t].guild \in DOMAIN contexts
                   THEN [@ EXCEPT !.found = TRUE,
                                  !.ret = contexts[task[t].guild],
                                  !.pc = "runlock"]
                   ELSE [@ EXCEPT !.pc = "runlock"]]
    /\ UNCHANGED <<mu, contexts, heap>>
    /\ UNCHANGED <<bot, botFrame>>

\* ensure, lines 482-485: b.mu.RUnlock(), and the return of a context found.
EnsureRUnlock(t) ==
    /\ task[t].pc = "runlock"
    /\ mu' = [mu EXCEPT !.readers = @ \ {t}]
    /\ task' = [task EXCEPT ![t].pc = IF task[t].found THEN "done"
                                      ELSE "lock"]
    /\ UNCHANGED <<contexts, heap>>
    /\ UNCHANGED <<bot, botFrame>>

\* ensure, line 487: b.mu.Lock().
EnsureLock(t) ==
    /\ task[t].pc = "lock"
    /\ mu.writer = 0
    /\ mu.readers = {}
    /\ mu' = [mu EXCEPT !.writer = t]
    /\ task' = [task EXCEPT ![t].pc = "recheck"]
    /\ UNCHANGED <<contexts, heap>>
    /\ UNCHANGED <<bot, botFrame>>

\* ensure that creates a context without looking again under the lock.
EnsureRecheck_NoRecheck(t) ==
    /\ task[t].pc = "recheck"
    /\ heap' = Append(heap, NewGuildContext(task[t].guild))
    /\ contexts' = Store(contexts, task[t].guild, Len(heap) + 1)
    /\ task' = [task EXCEPT ![t].ret = Len(heap) + 1,
                            ![t].pc = "unlock"]
    /\ UNCHANGED mu
    /\ UNCHANGED <<bot, botFrame>>

\* ensure, lines 490-503: the second lookup, under the exclusive lock, and
\* the creation and storing of the context when it is still absent.
EnsureRecheck(t) ==
    /\ task[t].pc = "recheck"
    /\ IF task[t].guild \in DOMAIN contexts
       THEN /\ task' = [task EXCEPT ![t].ret = contexts[task[t].guild],
                                    ![t].pc = "unlock"]
            /\ UNCHANGED <<contexts, heap>>
       ELSE /\ heap' = Append(heap, NewGuildContext(task[t].guild))
            /\ contexts' = Store(contexts, task[t].guild, Len(heap) + 1)
            /\ task' = [task EXCEPT ![t].ret = Len(heap) + 1,
                                    ![t].pc = "unlock"]
    /\ UNCHANGED mu
    /\ UNCHANGED <<bot, botFrame>>

\* ensure, line 488: the deferred b.mu.Unlock(), on return.
EnsureUnlock(t) ==
    /\ task[t].pc = "unlock"
    /\ mu' = [mu EXCEPT !.writer = 0]
    /\ task' = [task EXCEPT ![t].pc = "done"]
    /\ UNCHANGED <<contexts, heap>>
    /\ UNCHANGED <<bot, botFrame>>

EnsureNext ==
    \/ \E t \in DOMAIN task : EnsureRLock(t)
    \/ \E t \in DOMAIN task : EnsureCheck(t)
    \/ \E t \in DOMAIN task : EnsureRUnlock(t)
    \/ \E t \in DOMAIN task : EnsureLock(t)
    \/ \E t \in DOMAIN task : EnsureRecheck(t)
    \/ \E t \in DOMAIN task : EnsureUnlock(t)

EnsureSpec == EnsureInit /\ [][EnsureNext]_vars

\* The contexts created so far for a guild ID.
Created(guildID) == {i \in 1..Len(heap) : heap[i].guild = guildID}

\* The task's call of ensure has returned.
EnsureDone(t) == task[t].pc = "done"

\* C20: however the calls of ensure for one ID interleave, one context is
\* created for that ID, the registry holds it under that ID, and every
\* call returns that same context.
C20_EnsureCreatesOne ==
    /\ \A g \in Guilds :
        /\ Cardinality(Created(g)) <= 1
        /\ g \in DOMAIN contexts <=> Created(g) # {}
        /\ g \in DOMAIN contexts => Created(g) = {contexts[g]}
    /\ \A t \in DOMAIN task :
        (EnsureDone(t) \/ task[t].pc = "unlock")
          => /\ task[t].guild \in DOMAIN contexts
             /\ task[t].ret = contexts[task[t].guild]
    /\ \A t, u \in DOMAIN task :
        (EnsureDone(t) /\ EnsureDone(u) /\ task[t].guild = task[u].guild)
          => task[t].ret = task[u].ret

C20_Witness ==
    /\ \A t \in DOMAIN task :
        /\ EnsureDone(t)
        /\ task[t].guild = "g1"
        /\ ~task[t].found
        /\ task[t].ret = contexts["g1"]
    /\ Len(heap) = 1
    /\ DOMAIN contexts = {"g1"}

\* --------------------------------------------------------------- the Bot
\* The Bot after NewBot.  Three goroutines have a slot of their own: the
\* gateway handler that calls register or remove (GuildCreate and
\* GuildDelete, lines 375-376), the gateway handler that calls enqueue
\* (lines 378-386) and route (line 388).  The load and dispatch goroutines
\* that register starts take the lowest free slot of a pool of NumWorkers
\* and free it when they return.  A gateway slot keeps the record of its
\* latest call until the next one.  register and remove hold b.mu
\* exclusively from their first statement to their return, so each is one
\* step.
GatewayTask == 1
EnqueueTask == 2
RouteTask == 3
\* The slots of the goroutines started with `go`.
Pool == {t \in DOMAIN task : t > RouteTask}

BotGuilds == {"g1"}

FreeTask == [NoTask EXCEPT !.kind = "free", !.pc = "free"]
ReadyTask(kind) == [NoTask EXCEPT !.kind = kind, !.pc = "ready"]

FreeSlots(tk) == {t \in Pool : tk[t].pc = "free"}
Lowest(S) == CHOOSE x \in S : \A y \in S : x <= y

\* `go f(...)`: the new goroutine takes the lowest free slot.
Spawn(tk, r) == [tk EXCEPT ![Lowest(FreeSlots(tk))] = r]

Goroutine(kind, guildID, pc, orphan) ==
    [NoTask EXCEPT !.kind = kind, !.guild = guildID, !.pc = pc,
                   !.orphan = orphan]

\* ctx.Context.Done() is closed: Cancel was called on the context or the
\* root context it derives from was cancelled.
Done(c) == heap[c].cancelled \/ bot.cancelled

\* existing.Cancel(), guildCtx.Cancel()
Cancel(h, c) == [h EXCEPT ![c].cancelled = TRUE]

\* &GuildContext{...} of register, lines 693-700: two unbuffered channels.
RegisteredGuildContext(guildID) ==
    [guild |-> guildID, cancelled |-> FALSE,
     events |-> <<>>, eventsCap |-> 0,
     relay |-> <<>>, relayCap |-> 0, monitors |-> 0]

\* delete(b.contexts, g.ID)
Unstore(m, guildID) == [g \in DOMAIN m \ {guildID} |-> m[g]]

\* The gateway can run register now: b.mu is free.
CanRegister ==
    /\ Len(heap) < MaxContexts
    /\ mu.writer = 0
    /\ mu.readers = {}

\* A write of b.contexts can be under way: by ensure, which holds b.mu
\* and has its store of line 502 to make, or by register, line 702, which
\* can run now.  A read of the map made without the lock races with it.
Writing ==
    \/ \E t \in DOMAIN task :
        /\ mu.writer = t
        /\ task[t].pc = "recheck"
        /\ task[t].guild \notin DOMAIN contexts
    \/ CanRegister

BotStartWith(workers) ==
    /\ BreakerInit
    /\ StoreInit(MaxSize)
    /\ CallersInit(Callers)
    /\ RegistryInit
    /\ task = [t \in 1..(RouteTask + workers) |->
                 CASE t = GatewayTask -> ReadyTask("gateway")
                   [] t = EnqueueTask -> ReadyTask("enqueue")
                   [] t = RouteTask -> Goroutine("route", "", "select", FALSE)
                   [] OTHER -> FreeTask]

BotStart == BotStartWith(NumWorkers)

\* What the gateway slot holds after a call of register or remove.
GatewayReturned(kind, guildID, had) ==
    [ReadyTask(kind) EXCEPT !.guild = guildID, !.pc = "returned",
                            !.found = had]

\* register that replaces the existing context without cancelling it.
register_NoCancel(t) ==
    /\ t = GatewayTask
    /\ CanRegister
    /\ \E g \in BotGuilds :
        LET had == g \in DOMAIN contexts
            back == [task EXCEPT ![t] = GatewayReturned("register", g, had)]
        IN  /\ heap' = Append(heap, RegisteredGuildContext(g))
            /\ contexts' = Store(contexts, g, Len(heap) + 1)
            /\ \/ task' = back
               \/ /\ Cardinality(FreeSlots(task)) >= 2
                  /\ task' = Spawn(Spawn(back, Goroutine("load", g, "idle",
                                                         FALSE)),
                                   Goroutine("dispatch", g, "idle", FALSE))
    /\ UNCHANGED <<mu, bot>>
    /\ UNCHANGED botFrame

\* register, lines 686-729, by the gateway's GuildCreate handler: under
\* b.mu, the existing context is cancelled, a new one is stored, and load
\* and dispatch are started unless the database fails.
register(t) ==
    /\ t = GatewayTask
    /\ CanRegister
    /\ \E g \in BotGuilds :
        LET had == g \in DOMAIN contexts
            h == IF had THEN Cancel(heap, contexts[g]) ELSE heap
            back == [task EXCEPT ![t] = GatewayReturned("register", g, had)]
        IN  /\ heap' = Append(h, RegisteredGuildContext(g))
            /\ contexts' = Store(contexts, g, Len(heap) + 1)
            /\ \/ task' = back
               \/ /\ Cardinality(FreeSlots(task)) >= 2
                  /\ task' = Spawn(Spawn(back, Goroutine("load", g, "idle",
                                                         FALSE)),
                                   Goroutine("dispatch", g, "idle", FALSE))
    /\ UNCHANGED <<mu, bot>>
    /\ UNCHANGED botFrame

\* The goroutines remove leaves behind: the dispatch goroutines started
\* for the guild whose context it cancelled.
Orphaned(tk, guildID) ==
    [u \in DOMAIN tk |->
        IF tk[u].kind = "dispatch" /\ tk[u].guild = guildID
        THEN [tk[u] EXCEPT !.orphan = TRUE]
        ELSE tk[u]]

\* remove that deletes the entry and leaves its context live.
remove_NoCancel(t) ==
    /\ t = GatewayTask
    /\ mu.writer = 0
    /\ mu.readers = {}
    /\ \E g \in BotGuilds :
        LET had == g \in DOMAIN contexts
            back == [task EXCEPT ![t] = GatewayReturned("remove", g, had)]
        IN  /\ contexts' = Unstore(contexts, g)
            /\ task' = IF had THEN Orphaned(back, g) ELSE back
    /\ UNCHANGED <<mu, bot, heap>>
    /\ UNCHANGED botFrame

\* remove, lines 733-741, by the gateway's GuildDelete handler.
remove(t) ==
    /\ t = GatewayTask
    /\ mu.writer = 0
    /\ mu.readers = {}
    /\ \E g \in BotGuilds :
        LET had == g \in DOMAIN contexts
            back == [task EXCEPT ![t] = GatewayReturned("remove", g, had)]
        IN  /\ heap' = IF had THEN Cancel(heap, contexts[g]) ELSE heap
            /\ contexts' = Unstore(contexts, g)
            /\ task' = IF had THEN Orphaned(back, g) ELSE back
    /\ UNCHANGED <<mu, bot>>
    /\ UNCHANGED botFrame

\* load, lines 616-663, after its call of ensure: the guild's command set
\* is loaded, which touches nothing of the Bot.
LoadReturn(t) ==
    /\ task[t].kind = "load"
    /\ task[t].pc = "done"
    /\ task' = [task EXCEPT ![t] = FreeTask]
    /\ UNCHANGED <<mu, contexts, heap, bot>>
    /\ UNCHANGED botFrame

\* dispatch, lines 516-523: ctx is what ensure returned, and the monitor
\* is started on it.
DispatchStart(t) ==
    /\ task[t].kind = "dispatch"
    /\ task[t].pc = "done"
    /\ task' = [task EXCEPT ![t] = [@ EXCEPT !.pc = "loop",
                                             !.ctx = task[t].ret,
                                             !.found = FALSE, !.ret = 0]]
    /\ heap' = [heap EXCEPT ![task[t].ret].monitors = @ + 1]
    /\ UNCHANGED <<mu, contexts, bot>>
    /\ UNCHANGED botFrame

\* dispatch, lines 527-528: the select takes <-ctx.Context.Done().
DispatchExit(t) ==
    /\ task[t].kind = "dispatch"
    /\ task[t].pc = "loop"
    /\ Done(task[t].ctx)
    /\ task' = [task EXCEPT ![t] = FreeTask]
    /\ UNCHANGED <<mu, contexts, heap, bot>>
    /\ UNCHANGED botFrame

\* monitor, lines 753-754: the select takes <-ctx.Context.Done().
MonitorExit(c) ==
    /\ heap[c].monitors > 0
    /\ Done(c)
    /\ heap' = [heap EXCEPT ![c].monitors = @ - 1]
    /\ UNCHANGED <<mu, contexts, task, bot>>
    /\ UNCHANGED botFrame

\* Close, line 399: b.cancel().
CloseCancel ==
    /\ ~bot.cancelled
    /\ bot' = [bot EXCEPT !.cancelled = TRUE]
    /\ UNCHANGED <<mu, contexts, heap, task>>
    /\ UNCHANGED botFrame

\* Close, line 400: close(b.events).
CloseEvents ==
    /\ bot.cancelled
    /\ ~bot.closed
    /\ bot' = [bot EXCEPT !.closed = TRUE]
    /\ UNCHANGED <<mu, contexts, heap, task>>
    /\ UNCHANGED botFrame

\* The process has not been ended by a panic or a fatal error.
Running == bot.crashed = NoCrash

\* The dispatch goroutines blocked in the select of line 526 on context c.
Receivers(c) ==
    {u \in Pool : task[u].kind = "dispatch" /\ task[u].pc = "loop"
                  /\ task[u].ctx = c}

\* A send on ctx.Events can proceed at once into the buffer.
HasRoom(c) == Len(heap[c].events) < heap[c].eventsCap

\* enqueue, lines 667-674, by a gateway handler: the lookup under the
\* shared lock.
EnqueueLookup(t) ==
    /\ t = EnqueueTask
    /\ task[t].pc \in {"ready", "returned"}
    /\ bot.sent < MaxEvents
    /\ mu.writer = 0
    /\ \E g \in BotGuilds :
        task' = [task EXCEPT ![t] =
                    IF g \in DOMAIN contexts
                    THEN [ReadyTask("enqueue") EXCEPT !.guild = g,
                                                      !.pc = "send",
                                                      !.ctx = contexts[g]]
                    ELSE [ReadyTask("enqueue") EXCEPT !.guild = g,
                                                      !.pc = "returned"]]
    /\ UNCHANGED <<mu, contexts, heap, bot>>
    /\ UNCHANGED botFrame

\* enqueue, lines 676-682: the select.  The send proceeds into the buffer,
\* or to a dispatch goroutine blocked in its select; the Done case
\* proceeds when the context is cancelled; default is taken when neither
\* can.  event: the event delivered, 0 when it was dropped.
EnqueueSend(t) ==
    /\ task[t].pc = "send"
    /\ task[t].kind = "enqueue"
    /\ LET c == task[t].ctx
           e == bot.sent + 1
       IN  \/ /\ HasRoom(c)
              /\ heap' = [heap EXCEPT ![c].events = Append(@, e)]
              /\ bot' = [bot EXCEPT !.sent = e]
              /\ task' = [task EXCEPT ![t].pc = "returned",
                                      ![t].event = e]
           \/ /\ ~HasRoom(c)
              /\ \E u \in Receivers(c) :
                    task' = [task EXCEPT ![t].pc = "returned",
                                         ![t].event = e,
                                         ![u].pc = "got",
                                         ![u].event = e]
              /\ bot' = [bot EXCEPT !.sent = e]
              /\ UNCHANGED heap
           \/ /\ Done(c) \/ ~HasRoom(c)
              /\ task' = [task EXCEPT ![t].pc = "returned"]
              /\ UNCHANGED <<heap, bot>>
    /\ UNCHANGED <<mu, contexts>>
    /\ UNCHANGED botFrame

\* route, lines 405-407: the select takes <-b.ctx.Done().
RouteReturn(t) ==
    /\ task[t].kind = "route"
    /\ task[t].pc = "select"
    /\ bot.cancelled
    /\ task' = [task EXCEPT ![t].pc = "returned"]
    /\ UNCHANGED <<mu, contexts, heap, bot>>
    /\ UNCHANGED botFrame

\* route, lines 408-423: the select takes e := <-b.events from the open
\* channel, an interaction of some guild.  route stores the interaction
\* itself (lines 409-415), which touches nothing of the Bot; audit keeps
\* what dispatch stores.
RouteReceive(t) ==
    /\ task[t].kind = "route"
    /\ task[t].pc = "select"
    /\ ~bot.closed
    /\ bot.sent < MaxEvents
    /\ \E g \in BotGuilds :
         task' = [task EXCEPT ![t].pc = "forward", ![t].guild = g]
    /\ UNCHANGED <<mu, contexts, heap, bot>>
    /\ UNCHANGED botFrame

\* route, lines 408-419: the select takes e := <-b.events from the closed
\* channel, which yields the zero GuildEvent: its Type is
\* EventTypeGuildUpdate and its GuildUpdate is nil, and line 419
\* dereferences it.
RouteReceiveClosed(t) ==
    /\ task[t].kind = "route"
    /\ task[t].pc = "select"
    /\ bot.closed
    /\ bot' = [bot EXCEPT !.crashed = NilDereference]
    /\ UNCHANGED <<mu, contexts, heap, task>>
    /\ UNCHANGED botFrame

\* route, lines 421-423: b.contexts is read without b.mu, and the event is
\* sent with a plain send: into the buffer, or to a dispatch goroutine
\* blocked in its select, or else route waits in the send.
RouteForward(t) ==
    /\ task[t].kind = "route"
    /\ task[t].pc = "forward"
    /\ LET next == [task EXCEPT ![t].pc = "select", ![t].guild = ""]
           e == bot.sent + 1
       IN  \/ /\ Writing
              /\ bot' = [bot EXCEPT !.crashed = MapRace]
              /\ UNCHANGED <<task, heap>>
           \/ /\ task[t].guild \notin DOMAIN contexts
              /\ task' = next
              /\ UNCHANGED <<heap, bot>>
           \/ /\ task[t].guild \in DOMAIN contexts
              /\ LET c == contexts[task[t].guild]
                 IN  \/ /\ HasRoom(c)
                        /\ heap' = [heap EXCEPT ![c].events = Append(@, e)]
                        /\ bot' = [bot EXCEPT !.sent = e]
                        /\ task' = next
                     \/ /\ ~HasRoom(c)
                        /\ \E u \in Receivers(c) :
                              task' = [next EXCEPT ![u].pc = "got",
                                                   ![u].event = e]
                        /\ bot' = [bot EXCEPT !.sent = e]
                        /\ UNCHANGED heap
                     \/ /\ ~HasRoom(c)
                        /\ Receivers(c) = {}
                        /\ task' = [task EXCEPT ![t].pc = "blocked",
                                                ![t].ctx = c]
                        /\ UNCHANGED <<heap, bot>>
    /\ UNCHANGED <<mu, contexts>>
    /\ UNCHANGED botFrame

\* The goroutines blocked in a plain send on the queue of context c.
Senders(c) ==
    {u \in DOMAIN task : task[u].pc = "blocked" /\ task[u].ctx = c}

\* The sender whose event a receive has taken goes on: route, to its select.
Released(tk, u) ==
    [tk EXCEPT ![u].pc = "select", ![u].guild = "", ![u].ctx = 0]

\* dispatch, line 529: the select takes e := <-ctx.Events, from the head
\* of the buffer or from a goroutine blocked in its send.
DispatchReceive(t) ==
    /\ task[t].kind = "dispatch"
    /\ task[t].pc = "loop"
    /\ LET c == task[t].ctx
       IN  \/ /\ heap[c].events # <<>>
              /\ heap' = [heap EXCEPT ![c].events = Tail(@)]
              /\ task' = [task EXCEPT ![t].pc = "got",
                                      ![t].event = Head(heap[c].events)]
              /\ UNCHANGED bot
           \/ /\ heap[c].events = <<>>
              /\ \E u \in Senders(c) :
                    task' = [Released(task, u) EXCEPT
                                ![t].pc = "got", ![t].event = bot.sent + 1]
              /\ bot' = [bot EXCEPT !.sent = @ + 1]
              /\ UNCHANGED heap
    /\ UNCHANGED <<mu, contexts>>
    /\ UNCHANGED botFrame

\* dispatch, lines 530-534: b.contexts[guildID] is read without b.mu.
DispatchLookup(t) ==
    /\ task[t].kind = "dispatch"
    /\ task[t].pc = "got"
    /\ \/ /\ Writing
          /\ bot' = [bot EXCEPT !.crashed = MapRace]
          /\ UNCHANGED task
       \/ /\ task[t].guild \notin DOMAIN contexts
          /\ task' = [task EXCEPT ![t].pc = "loop", ![t].event = 0]
          /\ UNCHANGED bot
       \/ /\ task[t].guild \in DOMAIN contexts
          /\ task' = [task EXCEPT ![t].pc = "handle"]
          /\ UNCHANGED bot
    /\ UNCHANGED <<mu, contexts, heap>>
    /\ UNCHANGED botFrame

\* The events the queue of context c holds, each with the context.
Queued(c) ==
    {[event |-> heap[c].events[n], ctx |-> c] : n \in DOMAIN heap[c].events}

\* dispatch, lines 536-608: the interaction is stored, and then either the
\* guild cannot be fetched or no handler is registered (continue), or the
\* handler is started in a goroutine of its own, or the loop body panics,
\* which the deferred function of lines 507-514 recovers by starting
\* dispatch again.
DispatchHandle(t) ==
    /\ task[t].kind = "dispatch"
    /\ task[t].pc = "handle"
    /\ LET e == task[t].event
           stored == [event |-> e, ctx |-> task[t].ctx]
           next == [task EXCEPT ![t].pc = "loop", ![t].event = 0]
       IN  \/ /\ bot' = [bot EXCEPT !.audit = Append(@, stored)]
              /\ task' = next
           \/ /\ bot' = [bot EXCEPT !.audit = Append(@, stored),
                                    !.running = @ \cup {e}]
              /\ task' = next
           \/ /\ bot' = [bot EXCEPT !.audit = Append(@, stored),
                                    !.pending = @ \cup Queued(task[t].ctx)]
              /\ task' = [task EXCEPT ![t] =
                             Goroutine("dispatch", task[t].guild, "idle",
                                       task[t].orphan)]
    /\ UNCHANGED <<mu, contexts, heap>>
    /\ UNCHANGED botFrame

\* The record of a recovered panic of the handler of event e: sent is the
\* number of events delivered so far.
Panic(e) == [event |-> e, sent |-> bot.sent]

\* A handler goroutine whose panic nothing recovers.
HandlerReturn_NoRecover(e) ==
    /\ e \in bot.running
    /\ \/ bot' = [bot EXCEPT !.running = @ \ {e}]
       \/ bot' = [bot EXCEPT !.running = @ \ {e},
                             !.panicked = @ \cup {Panic(e)},
                             !.crashed = HandlerPanic]
    /\ UNCHANGED <<mu, contexts, heap, task>>
    /\ UNCHANGED botFrame

\* The handler goroutine, lines 578-604: h.Handle returns, with an error
\* or none, or panics, which the deferred function of lines 579-585
\* recovers; the goroutine ends.
HandlerReturn(e) ==
    /\ e \in bot.running
    /\ \/ bot' = [bot EXCEPT !.running = @ \ {e}]
       \/ bot' = [bot EXCEPT !.running = @ \ {e},
                             !.panicked = @ \cup {Panic(e)}]
    /\ UNCHANGED <<mu, contexts, heap, task>>
    /\ UNCHANGED botFrame

\* monitor, lines 755-765: on a tick, the loop receives the events the
\* queue holds, up to 500 of them, and those of the goroutines blocked
\* in a send.
MonitorTick(c) ==
    /\ heap[c].monitors > 0
    /\ heap[c].events # <<>> \/ Senders(c) # {}
    /\ LET n == Len(heap[c].events) + Cardinality(Senders(c))
       IN  /\ n <= 500
           /\ heap' = [heap EXCEPT ![c].events = <<>>]
           /\ bot' = [bot EXCEPT !.sent = @ + Cardinality(Senders(c))]
           /\ task' = [u \in DOMAIN task |->
                         IF u \in Senders(c)
                         THEN Released(task, u)[u]
                         ELSE task[u]]
    /\ UNCHANGED <<mu, contexts>>
    /\ UNCHANGED botFrame

\* The steps the started goroutines take by themselves: ensure when it
\* finds the context, load, the start and the end of dispatch and of its
\* monitor.
Housekeeping ==
    \/ \E t \in DOMAIN task : Running /\ EnsureRLock(t)
    \/ \E t \in DOMAIN task : Running /\ EnsureCheck(t)
    \/ \E t \in DOMAIN task : Running /\ EnsureRUnlock(t)
    \/ \E t \in DOMAIN task : Running /\ LoadReturn(t)
    \/ \E t \in DOMAIN task : Running /\ DispatchStart(t)
    \/ \E t \in DOMAIN task : Running /\ DispatchExit(t)
    \/ \E c \in DOMAIN heap : Running /\ MonitorExit(c)

\* ensure when it does not find the context, which takes a remove.
Creating ==
    \/ \E t \in DOMAIN task : Running /\ EnsureLock(t)
    \/ \E t \in DOMAIN task : Running /\ EnsureRecheck(t)
    \/ \E t \in DOMAIN task : Running /\ EnsureUnlock(t)

\* What dispatch does with an event it holds.
Handling ==
    \/ \E t \in DOMAIN task : Running /\ DispatchLookup(t)
    \/ \E t \in DOMAIN task : Running /\ DispatchHandle(t)
    \/ \E e \in 1..MaxEvents : Running /\ HandlerReturn(e)

\* The bot whose gateway reports guilds created and deleted and whose
\* owner calls Close, with no interaction arriving: of the steps of
\* route, dispatch and monitor, those that need an event are never
\* enabled.
BotNext ==
    \/ \E t \in DOMAIN task : Running /\ register(t)
    \/ \E t \in DOMAIN task : Running /\ remove(t)
    \/ Housekeeping
    \/ Creating
    \/ Running /\ CloseCancel
    \/ Running /\ CloseEvents
    \/ \E t \in DOMAIN task : Running /\ RouteReturn(t)
    \/ \E t \in DOMAIN task : Running /\ RouteReceiveClosed(t)

BotSpec == BotStart /\ [][BotNext]_vars

\* The bot whose gateway reports guilds created and interactions, which
\* its handlers pass to enqueue.  With no remove, ensure finds every
\* context and every queue is one of register, without a buffer, so that
\* an event reaches dispatch only in the send itself.
DeliveryNext ==
    \/ \E t \in DOMAIN task : Running /\ register(t)
    \/ Housekeeping
    \/ \E t \in DOMAIN task : Running /\ EnqueueLookup(t)
    \/ \E t \in DOMAIN task : Running /\ EnqueueSend(t)
    \/ Handling

DeliverySpec == BotStart /\ [][DeliveryNext]_vars

\* The bot whose gateway reports guilds created, whose b.events channel
\* receives interactions, and whose owner calls Close.
RouteNext ==
    \/ \E t \in DOMAIN task : Running /\ register(t)
    \/ Housekeeping
    \/ \E t \in DOMAIN task : Running /\ RouteReceive(t)
    \/ \E t \in DOMAIN task : Running /\ RouteForward(t)
    \/ \E t \in DOMAIN task : Running /\ RouteReturn(t)
    \/ \E t \in DOMAIN task : Running /\ RouteReceiveClosed(t)
    \/ \E t \in DOMAIN task : Running /\ DispatchReceive(t)
    \/ Handling
    \/ \E c \in DOMAIN heap : Running /\ MonitorTick(c)
    \/ Running /\ CloseCancel
    \/ Running /\ CloseEvents

RouteSpec == BotStart /\ [][RouteNext]_vars

\* The bot whose gateway reports guilds created and deleted and
\* interactions, with fewer goroutines at a time.
ChurnNext ==
    \/ \E t \in DOMAIN task : Running /\ register(t)
    \/ \E t \in DOMAIN task : Running /\ remove(t)
    \/ Housekeeping
    \/ Creating
    \/ \E t \in DOMAIN task : Running /\ EnqueueLookup(t)
    \/ \E t \in DOMAIN task : Running /\ EnqueueSend(t)
    \/ \E t \in DOMAIN task : Running /\ DispatchReceive(t)
    \/ Handling
    \/ \E c \in DOMAIN heap : Running /\ MonitorTick(c)

ChurnSpec == BotStartWith(FewWorkers) /\ [][ChurnNext]_vars

\* ---------------------------------------------------------------------
\* Claims about the Bot's event flow.

Consuming(c) ==
    {t \in Pool : /\ task[t].kind = "dispatch"
                  /\ task[t].pc \in {"loop", "got", "handle"}
                  /\ task[t].ctx = c}

\* C22: at every instant at most one live dispatch goroutine consumes a
\* guild's event queue: no context that is not cancelled has two
\* dispatch goroutines in their loop on it.
C22_OneLiveDispatch ==
    \A c \in DOMAIN heap : ~Done(c) => Cardinality(Consuming(c)) <= 1

\* C23: a command handler that panics does not end the guild's dispatch
\* loop: the step in which the panic is recovered leaves the process
\* running and every goroutine, queue and registry entry as it was.
C23_PanicConfined ==
    [][bot'.panicked # bot.panicked =>
          /\ bot'.crashed = NoCrash
          /\ task' = task
          /\ heap' = heap
          /\ contexts' = contexts
          /\ mu' = mu]_vars

\* The handler of event 1 panicked when event 2 had not been delivered,
\* and dispatch has since received event 2 and stored it.
C23_Witness ==
    /\ [event |-> 1, sent |-> 1] \in bot.panicked
    /\ \E n \in DOMAIN bot.audit : bot.audit[n].event = 2
    /\ Running

\* C24: the monitor only observes: a tick of the monitor of a context
\* leaves the queue of the context as it was, and takes no event off a
\* sender.
C24_MonitorObservesOnly ==
    [][\A c \in DOMAIN heap :
          MonitorTick(c) =>
              /\ heap'[c].events = heap[c].events
              /\ bot'.sent = bot.sent]_vars

\* What a step of register does to the registry: the context the guild
\* had is cancelled, and the entry is a context that did not exist, with
\* empty queues, on which Cancel has not been called.
Replaced ==
    LET g == task'[GatewayTask].guild
        c == contexts'[g]
    IN  /\ g \in DOMAIN contexts => heap'[contexts[g]].cancelled
        /\ c \notin DOMAIN heap
        /\ ~heap'[c].cancelled
        /\ heap'[c].events = <<>>
        /\ heap'[c].relay = <<>>

\* C25: register cancels the context installed for the guild, if any,
\* and installs a new context with fresh empty queues and a token that
\* is not cancelled.
C25_RegisterInstallsLive ==
    [][register(GatewayTask) =>
          /\ Replaced
          /\ ~bot'.cancelled]_vars

\* C25, amended: the token of the new context is not cancelled unless
\* Close has cancelled the root context, from which it derives.
C25_RegisterReplaces ==
    [][register(GatewayTask) =>
          /\ Replaced
          /\ ~bot.cancelled =>
                ~(heap'[contexts'[task'[GatewayTask].guild]].cancelled
                    \/ bot'.cancelled)]_vars

\* register has replaced the guild's context: the first is cancelled and
\* the entry is the second, which is live.
C25_Witness ==
    /\ task[GatewayTask].kind = "register"
    /\ task[GatewayTask].pc = "returned"
    /\ task[GatewayTask].found
    /\ Len(heap) = 2
    /\ heap[1].cancelled
    /\ contexts = [g \in BotGuilds |-> 2]
    /\ ~Done(2)

\* C26: every context the registry holds, made by ensure or by register,
\* has an event queue of capacity 1000 and a relay queue of capacity 500.
C26_FixedCapacities ==
    \A g \in DOMAIN contexts :
        /\ heap[contexts[g]].eventsCap = 1000
        /\ heap[contexts[g]].relayCap = 500

\* C27: remove cancels the guild's context and deletes its entry, and a
\* remove of a guild the registry does not hold changes nothing: no
\* context, no entry, no goroutine other than the caller, and the
\* process runs on.
C27_RemoveIdempotent ==
    [][remove(GatewayTask) =>
          LET g == task'[GatewayTask].guild
          IN  /\ g \notin DOMAIN contexts'
              /\ bot' = bot
              /\ g \in DOMAIN contexts =>
                    /\ heap'[contexts[g]].cancelled
                    /\ \A h \in DOMAIN contexts' : contexts'[h] = contexts[h]
              /\ g \notin DOMAIN contexts =>
                    /\ heap' = heap
                    /\ contexts' = contexts
                    /\ \A u \in DOMAIN task \ {GatewayTask} :
                          task'[u] = task[u]]_vars

\* A remove of a guild that an earlier remove had taken out has returned.
C27_Witness ==
    /\ task[GatewayTask].kind = "remove"
    /\ task[GatewayTask].pc = "returned"
    /\ ~task[GatewayTask].found
    /\ DOMAIN contexts = {}
    /\ Len(heap) = 1
    /\ heap[1].cancelled

\* C28: after remove has cancelled a guild's context, every dispatch
\* goroutine started for the guild observes the cancellation and exits:
\* such a goroutine, once in its loop, waits on a cancelled context.
C28_RemovedDispatchSeesCancel ==
    \A t \in Pool :
        /\ task[t].kind = "dispatch"
        /\ task[t].orphan
        /\ task[t].pc \in {"loop", "got", "handle"}
        => Done(task[t].ctx)

\* C29: no step of route, dispatch, monitor or Close ends in a panic or
\* fatal error that nothing recovers: the process is never ended.
C29_NeverCrashes ==
    bot.crashed = NoCrash

\* C30: the events delivered to one queue are stored and handed to their
\* handlers in the order in which they were delivered.
C30_StoredInOrder ==
    \A m, n \in DOMAIN bot.audit :
        /\ m < n
        /\ bot.audit[m].ctx = bot.audit[n].ctx
        => bot.audit[m].event < bot.audit[n].event

\* Event p.event is on its way through dispatch: in the queue of its
\* context, held by a dispatch goroutine, or stored.
InHand(p) ==
    \/ p \in Queued(p.ctx)
    \/ \E t \in Pool : /\ task[t].kind = "dispatch"
                       /\ task[t].pc \in {"got", "handle"}
                       /\ task[t].event = p.event
    \/ \E n \in DOMAIN bot.audit : bot.audit[n].event = p.event

\* C31: after a panic of the dispatch loop, the relaunched dispatch
\* consumes the same queue while the guild's context is still the
\* registry's entry, and the events that were queued at the panic are
\* processed: none of them leaves the queue other than into dispatch.
C31_RelaunchProcessesQueued ==
    \A p \in bot.pending :
        (\E g \in DOMAIN contexts : contexts[g] = p.ctx) => InHand(p)

\* ---------------------------------------------------------------------
\* The monitor's alert.

\* 5*time.Minute, in ticks.
warningWindow == 10

\* `consecutiveWarnings >= 3`
stuckAfter == 3

\* monitor, lines 767-794, on a tick at instant t: breached is the outcome
\* of `fillPercentage > 60`, which rests on len(ctx.Events) read while the
\* senders run.
Check(m, t, breached) ==
    IF breached
    THEN LET idle == Since(m.lastWarningTime, t) > warningWindow
             count == (IF idle THEN 0 ELSE m.consecutiveWarnings) + 1
         IN  [lastWarningTime |-> IF idle THEN t ELSE m.lastWarningTime,
              consecutiveWarnings |-> count,
              breaches |-> m.breaches + 1,
              alerted |-> count >= stuckAfter]
    ELSE [m EXCEPT !.breaches = 0, !.alerted = FALSE]

\* A tick of the 30-second ticker reaches the monitor: the next, or a
\* later one when the ticker dropped ticks.
MonitorCheck ==
    /\ \E t \in (now + 1)..MonMaxTime :
         /\ now' = t
         /\ \E breached \in BOOLEAN : mon' = Check(mon, t, breached)
    /\ UNCHANGED <<cb, ghostVars, cacheVars, maxSize>>
    /\ UNCHANGED <<mu, contexts, heap, task, bot>>

MonitorNext == MonitorCheck

MonitorSpec == Init /\ [][MonitorNext]_vars

\* C32: the monitor raises the stuck-handler alert on a check only if the
\* threshold was breached on that check and on the two checks before it.
C32_AlertNeedsThreeInARow ==
    mon.alerted => mon.breaches >= 3

\* Goroutine t is at a read or a write of b.contexts: the lookups of
\* ensure (lines 481 and 490) and its store, the lookup of route (line
\* 421) and that of dispatch (line 530).
Accessing(t) ==
    \/ task[t].pc \in {"check", "recheck"}
    \/ task[t].kind = "route" /\ task[t].pc = "forward"
    \/ task[t].kind = "dispatch" /\ task[t].pc = "got"

\* C33: every read and every write of the registry map is made by a
\* goroutine that holds b.mu, shared or exclusive.
C33_AccessUnderLock ==
    \A t \in DOMAIN task :
        Accessing(t) => t \in mu.readers \/ mu.writer = t

\* ---------------------------------------------------------------------
\* One caller of the Cache over a longer run: last keeps the latest Set
\* or Delete that returned no error, until the caller's next Set or
\* Delete returns.
NoWrite == [op |-> "none", key |-> "", data |-> NoData]

StaleInit ==
    /\ now = 0
    /\ cb = NewCircuitBreaker
    /\ last = NoWrite
    /\ streak = 0
    /\ failedAt = ZeroTime
    /\ probes = 0
    /\ admitted = 0
    /\ StoreInit(MaxSize)
    /\ CallersInit(Callers)
    /\ BotInit

\* A Set or Delete has returned and its result is still to be taken down.
Unnoted(c) == call[c].pc = "idle" /\ call[c].op \in {"Set", "Delete"}

Noted == \A c \in DOMAIN call : ~Unnoted(c)

\* The result of the Set or Delete that caller c has just got back is
\* taken down; no step of the Cache.
Note(c) ==
    /\ Unnoted(c)
    /\ last' = IF call[c].ret.err = ErrNil
               THEN [op |-> call[c].op, key |-> call[c].key,
                     data |-> call[c].data]
               ELSE NoWrite
    /\ call' = [call EXCEPT ![c] = NoCall]
    /\ UNCHANGED <<now, cb, streak, failedAt, probes, admitted, fb, remote,
                   maxSize, botVars>>

\* The calls are made with the one key and the default expiration.
StaleInput ==
    /\ \A c \in DOMAIN call : call[c].op # "none" => call[c].key = "a"
    /\ \A k \in DOMAIN fb : fb[k].expiresAt >= defaultExpiration

StaleNext ==
    \/ \E c \in DOMAIN call : Note(c)
    \/ \E c \in DOMAIN call : Noted /\ GetAllow(c) /\ StaleInput'
    \/ \E c \in DOMAIN call : GetDenied(c)
    \/ \E c \in DOMAIN call : GetRemote(c)
    \/ \E c \in DOMAIN call : GetRecordFailure(c)
    \/ \E c \in DOMAIN call : GetIsOpen(c)
    \/ \E c \in DOMAIN call : GetFallback(c)
    \/ \E c \in DOMAIN call : GetRecordSuccess(c)
    \/ \E c \in DOMAIN call : GetMirror(c)
    \/ \E c \in DOMAIN call : Noted /\ SetFallback(c) /\ StaleInput'
    \/ \E c \in DOMAIN call : SetAllow(c)
    \/ \E c \in DOMAIN call : SetRemote(c)
    \/ \E c \in DOMAIN call : SetRecordFailure(c)
    \/ \E c \in DOMAIN call : SetIsOpen(c)
    \/ \E c \in DOMAIN call : SetRecordSuccess(c)
    \/ \E c \in DOMAIN call : Noted /\ DeleteFallback(c) /\ StaleInput'
    \/ \E c \in DOMAIN call : DeleteAllow(c)
    \/ \E c \in DOMAIN call : DeleteRemote(c)
    \/ \E c \in DOMAIN call : DeleteRecordFailure(c)
    \/ \E c \in DOMAIN call : DeleteRecordSuccess(c)
    \/ Noted /\ Sweep
    \/ Noted /\ CacheTick

StaleSpec == StaleInit /\ [][StaleNext]_vars

\* C34: after a Set or a Delete of a key has returned without error, a
\* Get of the key that returns a value returns the value of that Set, and
\* returns none after the Delete, until the next Set or Delete of the key.
C34_NoStaleRead ==
    \A c \in DOMAIN call :
        (/\ ReturnedGet(c)
         /\ call[c].ret.err = ErrNil
         /\ last.op # "none"
         /\ last.key = call[c].key)
          => (last.op = "Set" /\ call[c].ret.val = last.data)

\* C35: after remove of a guild has returned, the registry holds no entry
\* for the guild until the gateway next registers it: while remove is the
\* gateway's latest call, no goroutine has stored an entry for its guild.
C35_RemovedStaysRemoved ==
    /\ task[GatewayTask].kind = "remove"
    /\ task[GatewayTask].pc = "returned"
    => task[GatewayTask].guild \notin DOMAIN contexts

\* C36: every context that register installs gets a dispatch goroutine
\* started for it: whatever the outcome of register, the step that
\* stores the context also starts a dispatch goroutine for its guild.
C36_RegisterStartsDispatch ==
    [][register(GatewayTask) /\ Cardinality(FreeSlots(task)) >= 2 =>
          \E t \in Pool :
              /\ task[t].pc = "free"
              /\ task'[t].kind = "dispatch"
              /\ task'[t].guild = task'[GatewayTask].guild]_vars

\* C37: a RecordFailure made while the breaker is Open leaves the state
\* and the failure count as they were and restarts the reset timer, so
\* that an Allow takes the breaker from Open to HalfOpen only when more
\* than resetTimeout has passed since the latest recorded failure,
\* however long ago the breaker opened; a RecordSuccess made while Open
\* changes nothing.
C37_OpenFailureRestartsTimer ==
    /\ (last.op = "RecordFailure" /\ last.prev.state = StateOpen)
          => /\ cb = [last.prev EXCEPT !.lastFailure = now]
             /\ cb.lastFailure = failedAt
    /\ (last.op = "Allow" /\ last.prev.state = StateOpen)
          => (cb.state = StateHalfOpen <=> Elapsed > cbResetTimeout)
    /\ (last.op = "RecordSuccess" /\ last.prev.state = StateOpen)
          => cb = last.prev

\* An Allow is refused although the breaker opened more than resetTimeout
\* ago: a failure recorded while Open restarted the timer.
C37_Witness ==
    /\ last.op = "Allow"
    /\ last.prev.state = StateOpen
    /\ ~last.ok
    /\ cb.state = StateOpen
    /\ Since(cb.lastStateChange, now) > cbResetTimeout
    /\ Elapsed <= cbResetTimeout

\* C38: a Set for a key the store already holds changes only that key's
\* entry: full store or not, it removes no other key, changes no other
\* entry and leaves the number of entries as it was.
C38_OverwriteTouchesOneEntry ==
    [][(last'.op = "Set" /\ last'.key \in DOMAIN fb)
         => /\ DOMAIN fb' = DOMAIN fb
            /\ \A k \in DOMAIN fb \ {last'.key} : fb'[k] = fb[k]]_vars
====
